---- MODULE Spec2Model ----
(***************************************************************************)
(* Model of src/app.py: the contradiction extractor compare_testimonies    *)
(* and the transcription flow of show_transcription_module that calls it.  *)
(*                                                                         *)
(* The upstream payload is a sequence of JSON lexemes; json.loads is the   *)
(* recursive-descent parser JsonLoads below, and the values it builds are  *)
(* records of one shape, so that lists, objects and scalars can be         *)
(* compared with each other.                                               *)
(***************************************************************************)
EXTENDS Integers, Sequences, FiniteSets, TLC

(***************************************************************************)
(* Bounds of the model.                                                    *)
(***************************************************************************)
\* longest JSON list the upstream model answers with
MaxElems == 2
\* largest number of "key": value members of a JSON object it answers with
MaxFields == 2
\* largest number of lexemes a truncated answer has lost at its end
MaxCut == 1

(***************************************************************************)
(* JSON lexemes.  c is the class of the lexeme: "p" punctuation, "str" a   *)
(* string literal, "num" a number, "lit" null/true/false, "ws" white       *)
(* space, "bad" text that is no JSON lexeme.                               *)
(***************************************************************************)
Tok(c, s) == [c |-> c, s |-> s]
LBracket == Tok("p", "[")
RBracket == Tok("p", "]")
LBrace == Tok("p", "{")
RBrace == Tok("p", "}")
Comma == Tok("p", ",")
Colon == Tok("p", ":")
Space == Tok("ws", " ")
Garbage == Tok("bad", "not json")

(***************************************************************************)
(* Python values built by json.loads.  t is the Python type; s the text of *)
(* a scalar; items the elements of a list or the values of a dict, and     *)
(* keys the keys of a dict in insertion order (keys[i] maps to items[i]).  *)
(***************************************************************************)
StrV(s) == [t |-> "str", s |-> s, keys |-> <<>>, items |-> <<>>]
NumV(s) == [t |-> "num", s |-> s, keys |-> <<>>, items |-> <<>>]
LitV(s) == [t |-> "lit", s |-> s, keys |-> <<>>, items |-> <<>>]
ListV(items) == [t |-> "list", s |-> "", keys |-> <<>>, items |-> items]
DictV(keys, items) == [t |-> "dict", s |-> "", keys |-> keys, items |-> items]

\* isinstance(v, list), isinstance(v, dict)
IsList(v) == v.t = "list"
IsDict(v) == v.t = "dict"

\* d[k] = v on a Python dict: an existing key keeps its position and takes the
\* new value, a new key is appended
DictPut(d, k, v) ==
    IF \E i \in 1..Len(d.keys) : d.keys[i] = k
    THEN LET i == CHOOSE j \in 1..Len(d.keys) : d.keys[j] = k
         IN  DictV(d.keys, [d.items EXCEPT ![i] = v])
    ELSE DictV(Append(d.keys, k), Append(d.items, v))

(***************************************************************************)
(* json.loads (app.py:354).  The scanner reads the lexemes ts from position *)
(* i on; a parse step returns ok, the value and the position after it;     *)
(* ok = FALSE stands for json.JSONDecodeError.                             *)
(***************************************************************************)
ParseFail == [ok |-> FALSE, val |-> LitV("null"), pos |-> 0]
ParseOk(v, pos) == [ok |-> TRUE, val |-> v, pos |-> pos]

\* the lexeme at position i, the end of the text after the last one
EndOfText == Tok("end", "")
At(ts, i) == IF i <= Len(ts) THEN ts[i] ELSE EndOfText

\* the JSON scanner skips white space between lexemes
RECURSIVE SkipSpace(_, _)
SkipSpace(ts, i) == IF At(ts, i) = Space THEN SkipSpace(ts, i + 1) ELSE i

RECURSIVE ParseValue(_, _)
RECURSIVE ParseElems(_, _, _)
RECURSIVE ParseMembers(_, _, _)

ParseValue(ts, i0) ==
    LET i == SkipSpace(ts, i0)
        h == At(ts, i)
        n == SkipSpace(ts, i + 1)
    IN  CASE h.c = "str" -> ParseOk(StrV(h.s), i + 1)
          [] h.c = "num" -> ParseOk(NumV(h.s), i + 1)
          [] h.c = "lit" -> ParseOk(LitV(h.s), i + 1)
          [] h = LBracket ->
               IF At(ts, n) = RBracket THEN ParseOk(ListV(<<>>), n + 1)
               ELSE ParseElems(ts, n, <<>>)
          [] h = LBrace ->
               IF At(ts, n) = RBrace THEN ParseOk(DictV(<<>>, <<>>), n + 1)
               ELSE ParseMembers(ts, n, DictV(<<>>, <<>>))
          [] OTHER -> ParseFail

\* the elements of a list after "[" : value ("," value)* "]"
ParseElems(ts, i, acc) ==
    LET pv == ParseValue(ts, i) IN
    IF ~pv.ok THEN ParseFail
    ELSE LET n == SkipSpace(ts, pv.pos) IN
         IF At(ts, n) = Comma THEN ParseElems(ts, n + 1, Append(acc, pv.val))
         ELSE IF At(ts, n) = RBracket THEN ParseOk(ListV(Append(acc, pv.val)), n + 1)
         ELSE ParseFail

\* the members of an object after "{" : string ":" value ("," ...)* "}"
ParseMembers(ts, i0, d) ==
    LET i == SkipSpace(ts, i0)
        c == SkipSpace(ts, i + 1)
    IN  IF At(ts, i).c # "str" \/ At(ts, c) # Colon THEN ParseFail
        ELSE LET pv == ParseValue(ts, c + 1) IN
             IF ~pv.ok THEN ParseFail
             ELSE LET n == SkipSpace(ts, pv.pos)
                      put == DictPut(d, At(ts, i).s, pv.val)
                  IN  IF At(ts, n) = Comma THEN ParseMembers(ts, n + 1, put)
                      ELSE IF At(ts, n) = RBrace THEN ParseOk(put, n + 1)
                      ELSE ParseFail

\* json.loads(s): one value, then nothing but white space
JsonLoads(ts) ==
    LET pv == ParseValue(ts, 1)
    IN  IF pv.ok /\ SkipSpace(ts, pv.pos) > Len(ts) THEN pv ELSE ParseFail

\* str.strip(): white space removed at both ends
RECURSIVE LastNonSpace(_, _)
LastNonSpace(ts, j) ==
    IF j >= 1 /\ ts[j] = Space THEN LastNonSpace(ts, j - 1) ELSE j
Strip(ts) == SubSeq(ts, SkipSpace(ts, 1), LastNonSpace(ts, Len(ts)))

(***************************************************************************)
(* The answers of the upstream model.  JSON texts are written from syntax  *)
(* trees of the value shape (an object's members may repeat a key), then   *)
(* padded, truncated or followed by stray text.                            *)
(***************************************************************************)
Contradiction(d) ==
    DictV(<<"description", "quote1", "quote2", "significance">>,
          <<StrV(d), StrV("q1"), StrV("q2"), StrV("medium")>>)
PartialRecord == DictV(<<"description">>, <<StrV("d2")>>)

\* what the upstream model may put into the list it answers with
Elems == {Contradiction("d1"), PartialRecord, StrV("x")}

\* all sequences over S of length at most n
SeqsUpTo(S, n) == UNION {[1..k -> S] : k \in 0..n}

JsonLists == {ListV(es) : es \in SeqsUpTo(Elems, MaxElems)}

FieldKeys == {"contradictions", "result"}
FieldVals == {ListV(<<>>), ListV(<<Contradiction("d1")>>), StrV("none"),
              DictV(<<"list">>, <<ListV(<<Contradiction("d1")>>)>>)}
JsonObjects ==
    {DictV(ks, vs) : <<ks, vs>> \in
        UNION {[1..k -> FieldKeys] \X [1..k -> FieldVals] : k \in 0..MaxFields}}

JsonScalars == {StrV("not json"), NumV("1"), LitV("null"), LitV("true")}

JsonTrees == JsonLists \cup JsonObjects \cup JsonScalars

\* the JSON text of a syntax tree
RECURSIVE Serialize(_)
RECURSIVE SerializeFrom(_, _)
SerializeFrom(v, i) ==
    IF i > Len(v.items) THEN <<>>
    ELSE (IF i > 1 THEN <<Comma>> ELSE <<>>)
         \o (IF IsDict(v) THEN <<Tok("str", v.keys[i]), Colon>> ELSE <<>>)
         \o Serialize(v.items[i])
         \o SerializeFrom(v, i + 1)
Serialize(v) ==
    CASE v.t = "list" -> <<LBracket>> \o SerializeFrom(v, 1) \o <<RBracket>>
      [] v.t = "dict" -> <<LBrace>> \o SerializeFrom(v, 1) \o <<RBrace>>
      [] OTHER -> <<Tok(v.t, v.s)>>

\* the texts the upstream model may answer with for one syntax tree
TextsOf(v) ==
    LET tx == Serialize(v) IN
    {tx, <<Space>> \o tx \o <<Space>>, tx \o <<Garbage>>}
    \cup {SubSeq(tx, 1, Len(tx) - k) : k \in 1..MaxCut}

Payloads == UNION {TextsOf(v) : v \in JsonTrees} \cup {<<Garbage>>}

\* what client.chat.completions.create does (app.py:343-352): it raises, or it
\* returns a response whose message content is None, or one with a content
Response(kind, content) == [kind |-> kind, content |-> content]
NoResponse == Response("none", <<>>)
Responses ==
    {Response("raise", <<>>), Response("nocontent", <<>>)}
    \cup {Response("content", p) : p \in Payloads}

(***************************************************************************)
(* Diagnostics: st.info / st.warning / st.error / st.success messages and  *)
(* print() lines.  key is the key named by the salvage warning, raw the    *)
(* payload a print() line carries.                                         *)
(***************************************************************************)
Diag(ch, msg, key, raw) == [ch |-> ch, msg |-> msg, key |-> key, raw |-> raw]
Msg(ch, msg) == Diag(ch, msg, "", <<>>)

(***************************************************************************)
(* compare_testimonies (app.py:317-373).  It returns None or a list; out   *)
(* is the sequence of diagnostics it emits.                                *)
(***************************************************************************)
RetNone == [none |-> TRUE, list |-> <<>>]
RetList(l) == [none |-> FALSE, list |-> l]
Returned(ret, out) == [ret |-> ret, out |-> out]

FirstListField_last(d) ==
    IF \E i \in 1..Len(d.items) : IsList(d.items[i])
    THEN CHOOSE i \in 1..Len(d.items) :
            /\ IsList(d.items[i])
            /\ \A j \in (i + 1)..Len(d.items) : ~IsList(d.items[j])
    ELSE 0

\* the loop of app.py:359-362: the position of the first list among the
\* values of the dict, 0 when the loop ends without finding one
FirstListField(d) ==
    IF \E i \in 1..Len(d.items) : IsList(d.items[i])
    THEN CHOOSE i \in 1..Len(d.items) :
            /\ IsList(d.items[i])
            /\ \A j \in 1..(i - 1) : ~IsList(d.items[j])
    ELSE 0

NotAList(raw) ==
    Returned(RetList(<<>>),
             <<Msg("error", "json_not_a_list"), Diag("print", "unexpected_json", "", raw)>>)

OnParsed_validating(v, raw) ==
    IF IsList(v) THEN Returned(RetList(SelectSeq(v.items, IsDict)), <<>>)
    ELSE IF IsDict(v) /\ FirstListField(v) # 0
    THEN LET i == FirstListField(v)
         IN  Returned(RetList(v.items[i].items),
                      <<Diag("warning", "salvaged_from_key", v.keys[i], <<>>)>>)
    ELSE NotAList(raw)

OnParsed_silent(v, raw) ==
    IF IsList(v) THEN Returned(RetList(v.items), <<>>)
    ELSE IF IsDict(v) /\ FirstListField(v) # 0
    THEN Returned(RetList(v.items[FirstListField(v)].items), <<>>)
    ELSE NotAList(raw)

OnParsed_strict(v, raw) ==
    IF IsList(v) THEN Returned(RetList(v.items), <<>>)
    ELSE IF IsDict(v) /\ FirstListField(v) # 0
    THEN LET i == FirstListField(v)
         IN  Returned(RetList(v.items[i].items),
                      <<Diag("warning", "salvaged_from_key", v.keys[i], <<>>)>>)
    ELSE Returned(RetNone, <<Msg("error", "comparison_failed")>>)

OnParsed_wrapping(v, raw) ==
    IF IsList(v) THEN Returned(RetList(v.items), <<>>)
    ELSE IF IsDict(v) /\ FirstListField(v) # 0
    THEN LET i == FirstListField(v)
         IN  Returned(RetList(v.items[i].items),
                      <<Diag("warning", "salvaged_from_key", v.keys[i], <<>>)>>)
    ELSE IF IsDict(v) THEN NotAList(raw)
    ELSE Returned(RetList(<<v>>), <<>>)

\* app.py:355-365: the value json.loads returned is used as it is when it is
\* a list; the first list among a dict's values is used with a warning;
\* anything else is an empty result with an error and the payload printed
OnParsed(v, raw) ==
    IF IsList(v) THEN Returned(RetList(v.items), <<>>)
    ELSE IF IsDict(v) /\ FirstListField(v) # 0
    THEN LET i == FirstListField(v)
         IN  Returned(RetList(v.items[i].items),
                      <<Diag("warning", "salvaged_from_key", v.keys[i], <<>>)>>)
    ELSE NotAList(raw)

OnDecodeError_raising(raw) ==
    Returned(RetNone, <<Msg("error", "comparison_failed")>>)

\* app.py:366-370: json.JSONDecodeError
OnDecodeError(raw) ==
    Returned(RetList(<<>>),
             <<Msg("error", "json_decode_error"), Msg("warning", "invalid_json"),
               Diag("print", "invalid_json", "", raw)>>)

OnException_empty == Returned(RetList(<<>>), <<Msg("error", "comparison_failed")>>)

\* app.py:371-373: any other exception raised inside the outer try
OnException == Returned(RetNone, <<Msg("error", "comparison_failed")>>)

\* app.py:321-341: the prompt, in pieces: the instructions, the label of
\* party 1, text1, the label of party 2, text2
BuildPrompt_swapped(text1, text2) ==
    <<"instructions", "party 1:", text2, "party 2:", text1>>

BuildPrompt(text1, text2) ==
    <<"instructions", "party 1:", text1, "party 2:", text2>>

RequestsSent_retry(text1, text2, resp) ==
    IF resp.kind = "raise"
    THEN <<BuildPrompt(text1, text2), BuildPrompt(text1, text2)>>
    ELSE <<BuildPrompt(text1, text2)>>

\* app.py:342-351: the chat-completion requests one invocation sends: the
\* call of client.chat.completions.create is in no loop and is not repeated
\* by an except clause
RequestsSent(text1, text2, resp) == <<BuildPrompt(text1, text2)>>

compare_testimonies(resp) ==
    IF resp.kind = "raise" THEN OnException
    \* None.strip() at app.py:352 raises AttributeError inside the outer try
    ELSE IF resp.kind = "nocontent" THEN OnException
    ELSE LET raw_response == Strip(resp.content)
             parsed == JsonLoads(raw_response)
         IN  IF parsed.ok THEN OnParsed(parsed.val, raw_response)
             ELSE OnDecodeError(raw_response)

(***************************************************************************)
(* The transcription flow, show_transcription_module (app.py:655-869): one *)
(* submission of the form, step by step.                                   *)
(***************************************************************************)
\* Python's None where a text is expected
None == "None"
\* truth value of an Optional[str]: None and "" are false
Truthy(t) == t \notin {None, ""}

\* what transcribe_audio returns (app.py:277-289): None, or the text
Transcripts == {None, "", "testimony 1", "testimony 2"}
\* what it returns for upload n, the recording of party n
Heard(n) == {None, "", IF n = 1 THEN "testimony 1" ELSE "testimony 2"}
\* what extract_audio returns (app.py:252-275): None, or the path of a file
AudioPaths == {None, "tmp.mp3"}
\* what analyze_transcription and generate_questions return: None, or a text
Answers == {None, "", "1. text"}

VARIABLES
    pc,                        \* the statement the submission is at
    uploaded_file2,            \* a second file was uploaded
    extract_facts,             \* checkboxes of the form
    find_contradictions,
    generate_questions_check,
    audio_path,                \* audio_path1 / audio_path2 of the file in work
    transcription1,
    transcription2,
    response,                  \* what the chat-completion request came back with
    contradictions_result,     \* what compare_testimonies returned
    compare_calls,             \* number of calls of compare_testimonies
    question_calls,            \* number of calls of generate_questions
    contradictions,            \* transcription_results['contradictions']
    suggestedQuestions,        \* transcription_results['suggestedQuestions']
    storage,                   \* the records save_history has written
    messages,                  \* st.* messages and print() lines, in order
    requests,                  \* the prompts compare_testimonies has sent
    raised_by,                 \* the function that let an exception escape
    evidence_list,             \* st.session_state.evidence_list
    tempfiles,                 \* the files in the temporary directory
    stub,                      \* the stub backend: the response to each prompt
    frames,                    \* the locals of each caller's invocation
    log,                       \* the invocations that have returned, in order
    now,                       \* the clock, in ticks
    dirs,                      \* the storage directories exist
    files,                     \* the content of each file under storage/
    sessions,                  \* the submission each browser session is in
    history,                   \* what the load_history call of the last step returned
    session_keys,              \* the keys of st.session_state
    indictment,                \* the last submission of the indictment form
    planning                   \* the last submission of the planning form

vars == <<pc, uploaded_file2, extract_facts, find_contradictions,
          generate_questions_check, audio_path, transcription1, transcription2,
          response, contradictions_result, compare_calls, question_calls,
          contradictions, suggestedQuestions, storage, messages, requests,
          raised_by, evidence_list, tempfiles, stub, frames, log, now, dirs,
          files, sessions, history, session_keys, indictment, planning>>

form == <<uploaded_file2, extract_facts, find_contradictions,
          generate_questions_check>>
comparison == <<response, contradictions_result, compare_calls, contradictions,
                requests>>
\* state of the other pages of the application
calls == <<stub, frames, log>>
store == <<now, dirs, files, sessions, history>>
forms == <<session_keys, indictment, planning>>
elsewhere == <<calls, store, forms>>
outside == <<evidence_list, elsewhere>>
questions == <<question_calls, suggestedQuestions>>

(***************************************************************************)
(* Independent callers of compare_testimonies (app.py:317-373) against a   *)
(* deterministic stub backend: the names of an invocation live in its own  *)
(* frame (text1, text2, prompt, response, and what it returns).            *)
(***************************************************************************)
MaxCalls == 3
Callers == {"c1", "c2"}
CallInputs == {<<"testimony 1", "testimony 2">>, <<"testimony 2", "testimony 1">>}
Prompts == {BuildPrompt(in[1], in[2]) : in \in CallInputs}
\* a failed request, an exact list, a list wrapped in an object, no JSON
StubResponses ==
    {Response("raise", <<>>),
     Response("content", Serialize(ListV(<<Contradiction("d1")>>))),
     Response("content",
              Serialize(DictV(<<"result">>, <<ListV(<<Contradiction("d1")>>)>>))),
     Response("content", <<Garbage>>)}
Stubs == [Prompts -> StubResponses]

Frame(at, text1, text2, prompt, resp, result) ==
    [at |-> at, text1 |-> text1, text2 |-> text2, prompt |-> prompt,
     response |-> resp, result |-> result]
IdleFrame == Frame("idle", None, None, <<>>, NoResponse, Returned(RetNone, <<>>))

CallsAtRest ==
    /\ frames = [c \in Callers |-> IdleFrame]
    /\ log = <<>>

FlowAtRest ==
    /\ pc = "form"
    /\ uploaded_file2 = FALSE
    /\ extract_facts = TRUE
    /\ find_contradictions = TRUE
    /\ generate_questions_check = TRUE
    /\ audio_path = None
    /\ transcription1 = None
    /\ transcription2 = None
    /\ response = NoResponse
    /\ contradictions_result = RetNone
    /\ compare_calls = 0
    /\ question_calls = 0
    /\ contradictions = <<>>
    /\ suggestedQuestions = <<>>
    /\ storage = {}
    /\ messages = <<>>
    /\ requests = <<>>
    /\ raised_by = ""
    /\ evidence_list = <<>>
    /\ tempfiles = {}

(***************************************************************************)
(* The history store (app.py:121-176) under two browser sessions.  Time is *)
(* counted in ticks; a case number keeps the second, a generatedDate the   *)
(* instant.                                                                *)
(***************************************************************************)
MaxClock == 2
TicksPerSecond == 2
Sessions == {"s1", "s2"}

\* app.py:141-143: strftime('%Y%m%d-%H%M%S') drops the fraction of the second
generate_case_number(t) == t \div TicksPerSecond

\* app.py:149-150: storage/{module_type}/{module_type}_{id}.json, as
\* <<directory, prefix, id>>
FileName(module_type, id) == <<module_type, module_type, id>>
\* a file that save_history did not write: a record of an older version,
\* without generatedDate, or a damaged file
OldFile == <<"transcriptions", "old", 0>>
FileNames ==
    {FileName("transcriptions", generate_case_number(t)) : t \in 0..MaxClock}
    \cup {FileName("planning", 0), OldFile}

FileContent(kind, id, dated, date, found) ==
    [kind |-> kind, id |-> id, dated |-> dated, generatedDate |-> date,
     contradictions |-> found]
Absent == FileContent("absent", 0, FALSE, 0, <<>>)
Unreadable == FileContent("corrupt", 0, FALSE, 0, <<>>)
Undated == FileContent("record", 0, FALSE, 0, <<>>)
\* app.py:708 and 776: id, generatedDate and contradictions of a record
RecordOf(id, date, found) == FileContent("record", id, TRUE, date, found)
\* the lists a submission may store
SavedLists == {<<>>, <<Contradiction("d1")>>}

NoSubmission == [at |-> "idle", case_number |-> 0, generatedDate |-> 0]
NotLoaded ==
    [shown |-> FALSE, module |-> "", exists |-> FALSE, listing |-> <<>>,
     result |-> <<>>, warning |-> FALSE]

StoreAtRest ==
    /\ now = 0
    /\ dirs = FALSE
    /\ files = [n \in FileNames |-> Absent]
    /\ sessions = [s \in Sessions |-> NoSubmission]
    /\ history = NotLoaded

NoStub == [p \in Prompts |-> Response("raise", <<>>)]

(***************************************************************************)
(* The indictment form (app.py:1280-1533) and the planning form            *)
(* (app.py:1003-1107).                                                     *)
(***************************************************************************)
MaxEvidence == 2

Evidence(type, description, fileName) ==
    [type |-> type, description |-> description, fileName |-> fileName]
\* app.py:1384 and 1420: the entry a new row of the manual list starts as
BlankEvidence == Evidence("", "", "")
\* what the select box and the text area of a manual row may hold
ManualEvidence == {Evidence(t, d, "") : t \in {"", "other"}, d \in {"", "seen"}}
\* app.py:1316-1374: the items made of the uploaded files; the select box has
\* no empty option and an empty description becomes the name of the file
FileEvidence(uploaded, description) ==
    IF uploaded
    THEN <<Evidence("witness", IF description = "" THEN "file: f.txt" ELSE description,
                    "f.txt")>>
    ELSE <<>>

\* a classification as determine_crime_classification returns it: None, or
\* the words of the answer
Classified(words) == [none |-> FALSE, words |-> words]
NoClassification == [none |-> TRUE, words |-> <<>>]
ClassificationAnswers ==
    {NoClassification,
     Classified(<<"theft">>),
     Classified(<<"theft", "articles:", "188", ",", "191">>)}

NoIndictment ==
    [submitted |-> FALSE, case_number |-> "", crime_description |-> "",
     suspect_info |-> "", combined_evidence_list |-> <<>>, requested |-> <<>>,
     saved |-> FALSE, evidenceList |-> <<>>, indictmentText |-> None,
     error |-> ""]
NoPlanning ==
    [submitted |-> FALSE, case_number |-> "", case_description |-> "",
     methodology |-> FALSE, requested |-> <<>>, raised |-> FALSE, saved |-> FALSE,
     extractedFacts |-> None, crimeClassification |-> NoClassification,
     legalArticles |-> <<>>, plan |-> None, methodologyUsed |-> FALSE,
     crimeCategory |-> "", suspectInfo |-> "", error |-> ""]

FormsAtRest ==
    /\ session_keys = {}
    /\ indictment = NoIndictment
    /\ planning = NoPlanning

Init ==
    /\ FlowAtRest
    /\ CallsAtRest
    /\ stub = NoStub
    /\ StoreAtRest
    /\ FormsAtRest

\* app.py:701-710: the form is submitted
Submit ==
    /\ pc = "form"
    /\ \E f1, f2, ef, fc, gq \in BOOLEAN :
        /\ uploaded_file2' = f2
        /\ extract_facts' = ef
        /\ find_contradictions' = fc
        /\ generate_questions_check' = gq
        /\ IF ~f1
           THEN /\ messages' = Append(messages, Msg("error", "file1_required"))
                /\ pc' = "done"
           ELSE /\ messages' = messages
                /\ pc' = "extract1"
    /\ UNCHANGED <<audio_path, transcription1, transcription2, comparison,
                   questions, storage, raised_by, outside, tempfiles>>

\* app.py:260: the temporary copy of the upload, named after its suffix; the
\* uploads are an .mp4 video and an .mp3 recording
InputPath(video) == IF video THEN "tmp.mp4" ELSE "tmp.mp3"

\* what can happen inside extract_audio: ffmpeg is not installed (257), the
\* copy cannot be written (261), ffmpeg fails (265), or nothing fails
ExtractOutcomes(video) ==
    IF video THEN {"no_ffmpeg", "write_failed", "ffmpeg_failed", "ok"}
    ELSE {"write_failed", "ok"}

\* app.py:252-275: extract_audio(uploaded_file); ret is the path returned,
\* left the files it leaves in the temporary directory.  The except clause
\* removes input_path, which is assigned at 262, after the file was created
\* (260, delete=False) and written (261)
extract_audio(video, outcome) ==
    CASE outcome = "no_ffmpeg" ->
           [ret |-> None, left |-> {}, out |-> <<Msg("error", "ffmpeg_missing")>>]
      [] outcome = "write_failed" ->
           [ret |-> None, left |-> {InputPath(video)},
            out |-> <<Msg("error", "extract_error")>>]
      [] outcome = "ffmpeg_failed" ->
           [ret |-> None, left |-> {}, out |-> <<Msg("error", "extract_error")>>]
      [] OTHER ->
           [ret |-> IF video THEN "tmp.mp3" ELSE InputPath(video),
            left |-> {IF video THEN "tmp.mp3" ELSE InputPath(video)},
            out |-> <<>>]

\* app.py:714 and 743: audio_path = extract_audio(uploaded_file)
ExtractAudio ==
    /\ pc \in {"extract1", "extract2"}
    /\ \E video \in BOOLEAN : \E outcome \in ExtractOutcomes(video) :
        LET r == extract_audio(video, outcome) IN
        /\ audio_path' = r.ret
        /\ tempfiles' = tempfiles \cup r.left
        /\ messages' = messages \o r.out
    /\ pc' = IF pc = "extract1" THEN "transcribe1" ELSE "transcribe2"
    /\ UNCHANGED <<form, transcription1, transcription2, comparison, questions,
                   storage, raised_by, outside>>

AfterException_saving == "save"

\* app.py:868-869: the handler of the flow shows the error; nothing of the
\* try block after the raising statement is run
AfterException == "done"

\* app.py:715 and 744: transcription = transcribe_audio(client, audio_path);
\* with audio_path None, os.path.exists(None) in its finally clause raises
TranscribeAudio ==
    /\ pc \in {"transcribe1", "transcribe2"}
    /\ IF audio_path = None
       THEN /\ messages' = messages \o <<Msg("error", "transcribe_error"),
                                         Msg("error", "processing_error")>>
            /\ pc' = AfterException
            /\ raised_by' = "transcribe_audio"
            /\ UNCHANGED <<transcription1, transcription2, tempfiles>>
       ELSE \E text \in Heard(IF pc = "transcribe1" THEN 1 ELSE 2) :
            /\ raised_by' = raised_by
            /\ tempfiles' = tempfiles \ {audio_path}
            /\ messages' = IF text = None
                           THEN Append(messages, Msg("error", "transcribe_error"))
                           ELSE messages
            /\ IF pc = "transcribe1"
               THEN /\ transcription1' = text
                    /\ pc' = "analyze1"
                    /\ UNCHANGED transcription2
               ELSE /\ transcription2' = text
                    /\ pc' = "analyze2"
                    /\ UNCHANGED transcription1
    /\ UNCHANGED <<form, audio_path, comparison, questions, storage, outside>>

AfterAnalyze_again(at, second) ==
    IF second THEN "extract2" ELSE "compare"

\* app.py:739-741 and 766-768: after the analyses of the first transcript the
\* second file is processed if there is one; then comes the comparison
AfterAnalyze(at, second) ==
    IF at = "analyze1" /\ second THEN "extract2" ELSE "compare"

\* app.py:727-741 and 756-766: the analyses of one transcript; facts_text.split
\* raises when analyze_transcription returned None for the facts (the sequence
\* analysis and the summary are stored as returned, None included, and steer
\* nothing)
Analyze ==
    /\ pc \in {"analyze1", "analyze2"}
    /\ LET text == IF pc = "analyze1" THEN transcription1 ELSE transcription2
           next == AfterAnalyze(pc, uploaded_file2)
       IN  IF ~Truthy(text)
           THEN /\ pc' = next
                /\ UNCHANGED <<messages, raised_by>>
           ELSE \E facts_text \in Answers :
                IF extract_facts /\ facts_text = None
                THEN /\ messages' = messages \o <<Msg("error", "analysis_error"),
                                                  Msg("error", "processing_error")>>
                     /\ pc' = AfterException
                     /\ raised_by' = "show_transcription_module"
                ELSE /\ pc' = next
                     /\ UNCHANGED <<messages, raised_by>>
    /\ UNCHANGED <<form, audio_path, transcription1, transcription2, comparison,
                   questions, storage, outside, tempfiles>>

StoredContradictions_records(ret) ==
    IF ret.none THEN <<>> ELSE SelectSeq(ret.list, IsDict)

\* app.py:773-774: what the record keeps of the value compare_testimonies
\* returned; the empty list of 769 stays when it returned None
StoredContradictions(ret) == IF ret.none THEN <<>> ELSE ret.list

\* app.py:770: the condition under which the comparison is run
ShouldCompare(fc, t1, t2) == fc /\ Truthy(t1) /\ Truthy(t2)

Compare_caching ==
    /\ pc = "compare"
    /\ IF ShouldCompare(find_contradictions, transcription1, transcription2)
       THEN \E resp \in Responses :
            LET r == compare_testimonies(resp) IN
            /\ response' = resp
            /\ contradictions_result' = r.ret
            /\ compare_calls' = compare_calls + 1
            /\ requests' = requests \o RequestsSent(transcription1, transcription2, resp)
            /\ contradictions' = StoredContradictions(r.ret)
            /\ evidence_list' = Append(evidence_list, [type |-> "cache", description |-> ""])
            /\ messages' = messages \o <<Msg("info", "comparing")>> \o r.out
                   \o (IF r.ret.none THEN <<Msg("error", "comparison_api_error")>>
                       ELSE IF r.ret.list = <<>>
                       THEN <<Msg("info", "no_contradictions")>>
                       ELSE <<>>)
       ELSE /\ contradictions' = <<>>
            /\ UNCHANGED <<response, contradictions_result, compare_calls, messages,
                           requests, evidence_list>>
    /\ pc' = "questions"
    /\ UNCHANGED <<form, audio_path, transcription1, transcription2, questions,
                   storage, raised_by, tempfiles, elsewhere>>

\* app.py:769-776: the comparison of the two transcripts
Compare ==
    /\ pc = "compare"
    /\ IF ShouldCompare(find_contradictions, transcription1, transcription2)
       THEN \E resp \in Responses :
            LET r == compare_testimonies(resp) IN
            /\ response' = resp
            /\ contradictions_result' = r.ret
            /\ compare_calls' = compare_calls + 1
            /\ requests' = requests \o RequestsSent(transcription1, transcription2, resp)
            /\ contradictions' = StoredContradictions(r.ret)
            /\ messages' = messages \o <<Msg("info", "comparing")>> \o r.out
                   \o (IF r.ret.none THEN <<Msg("error", "comparison_api_error")>>
                       ELSE IF r.ret.list = <<>>
                       THEN <<Msg("info", "no_contradictions")>>
                       ELSE <<>>)
       ELSE /\ contradictions' = <<>>
            /\ UNCHANGED <<response, contradictions_result, compare_calls, messages,
                           requests>>
    /\ pc' = "questions"
    /\ UNCHANGED <<form, audio_path, transcription1, transcription2, questions,
                   storage, raised_by, outside, tempfiles>>

\* app.py:780: the condition under which questions are generated
ShouldAsk_either(gq, found) == gq \/ found # <<>>

ShouldAsk_unconditional(gq, found) == gq

ShouldAsk(gq, found) == gq /\ found # <<>>

\* app.py:779-787: question generation; c.get raises for an element of the
\* list that is no dict, before generate_questions is called
GenerateQuestions ==
    /\ pc = "questions"
    /\ IF ~ShouldAsk(generate_questions_check, contradictions)
       THEN /\ pc' = "save"
            /\ suggestedQuestions' = <<>>
            /\ UNCHANGED <<question_calls, messages, raised_by>>
       ELSE IF \E i \in 1..Len(contradictions) : ~IsDict(contradictions[i])
       THEN /\ messages' = messages \o <<Msg("info", "asking"),
                                         Msg("error", "processing_error")>>
            /\ pc' = AfterException
            /\ raised_by' = "show_transcription_module"
            /\ suggestedQuestions' = <<>>
            /\ UNCHANGED question_calls
       ELSE \E qs \in Answers :
            /\ question_calls' = question_calls + 1
            /\ suggestedQuestions' = IF Truthy(qs) THEN <<qs>> ELSE <<>>
            /\ messages' = messages \o <<Msg("info", "asking")>>
                   \o (IF qs = None THEN <<Msg("error", "questions_error")>> ELSE <<>>)
                   \o (IF Truthy(qs) THEN <<>> ELSE <<Msg("error", "no_questions")>>)
            /\ pc' = "save"
            /\ raised_by' = raised_by
    /\ UNCHANGED <<form, audio_path, transcription1, transcription2, comparison,
                   storage, outside, tempfiles>>

\* app.py:146-156 and 790: save_history("transcriptions", transcription_results)
SaveHistory ==
    /\ pc = "save"
    /\ storage' = storage \cup
           {[module |-> "transcriptions", contradictions |-> contradictions,
             suggestedQuestions |-> suggestedQuestions]}
    /\ messages' = Append(messages, Msg("success", "done"))
    /\ pc' = "docx"
    /\ UNCHANGED <<form, audio_path, transcription1, transcription2, comparison,
                   questions, raised_by, outside, tempfiles>>

\* app.py:796-866: the report; contradiction.get raises for an element that
\* is no dict
BuildDocument ==
    /\ pc = "docx"
    /\ IF \E i \in 1..Len(contradictions) : ~IsDict(contradictions[i])
       THEN /\ messages' = Append(messages, Msg("error", "processing_error"))
            /\ raised_by' = "show_transcription_module"
            /\ pc' = AfterException
       ELSE /\ pc' = "done"
            /\ UNCHANGED <<messages, raised_by>>
    /\ UNCHANGED <<form, audio_path, transcription1, transcription2, comparison,
                   questions, storage, outside, tempfiles>>

Next ==
    \/ Submit
    \/ ExtractAudio
    \/ TranscribeAudio
    \/ Analyze
    \/ Compare
    \/ GenerateQuestions
    \/ SaveHistory
    \/ BuildDocument

Spec == Init /\ [][Next]_vars

(***************************************************************************)
(* Interleaved invocations of compare_testimonies.                         *)
(***************************************************************************)
transcription == <<pc, form, audio_path, transcription1, transcription2,
                   comparison, questions, storage, messages, raised_by>>
flow == <<transcription, evidence_list, tempfiles, forms>>

InitCalls ==
    /\ FlowAtRest
    /\ CallsAtRest
    /\ stub \in Stubs
    /\ StoreAtRest
    /\ FormsAtRest

\* app.py:317-341: a caller enters compare_testimonies with two texts; the
\* prompt is built and the request goes out (343)
Invoke(c) ==
    /\ frames[c].at \in {"idle", "returned"}
    /\ Len(log) + Cardinality({d \in Callers : frames[d].at \in {"sent", "received"}})
          < MaxCalls
    /\ \E in \in CallInputs :
         frames' = [frames EXCEPT ![c] =
                       Frame("sent", in[1], in[2], BuildPrompt(in[1], in[2]),
                             NoResponse, Returned(RetNone, <<>>))]
    /\ UNCHANGED <<flow, stub, log, store>>

Respond_shared(c) ==
    /\ frames[c].at = "sent"
    /\ frames' = [d \in Callers |->
                    IF d = c
                    THEN [frames[c] EXCEPT !.at = "received",
                                           !.response = stub[frames[c].prompt]]
                    ELSE IF frames[d].at = "received"
                    THEN [frames[d] EXCEPT !.response = stub[frames[c].prompt]]
                    ELSE frames[d]]
    /\ UNCHANGED <<flow, stub, log, store>>

\* app.py:343-351: client.chat.completions.create returns (or raises) into
\* the local name response of the invocation that called it
Respond(c) ==
    /\ frames[c].at = "sent"
    /\ frames' = [frames EXCEPT ![c].at = "received",
                                ![c].response = stub[frames[c].prompt]]
    /\ UNCHANGED <<flow, stub, log, store>>

Return_memo(c) ==
    /\ frames[c].at = "received"
    /\ LET f == frames[c]
           seen == {k \in 1..Len(log) :
                      log[k].text1 = f.text1 /\ log[k].text2 = f.text2}
           r == IF seen = {} THEN compare_testimonies(f.response)
                ELSE Returned(log[CHOOSE k \in seen : TRUE].ret, <<>>)
       IN  /\ frames' = [frames EXCEPT ![c].at = "returned", ![c].result = r]
           /\ log' = Append(log, [caller |-> c, text1 |-> f.text1, text2 |-> f.text2,
                                  ret |-> r.ret, out |-> r.out])
    /\ UNCHANGED <<flow, stub, store>>

\* app.py:352-373: the rest of compare_testimonies, computed from the locals
\* of the invocation; it returns to its caller
Return(c) ==
    /\ frames[c].at = "received"
    /\ LET f == frames[c]
           r == compare_testimonies(f.response)
       IN  /\ frames' = [frames EXCEPT ![c].at = "returned", ![c].result = r]
           /\ log' = Append(log, [caller |-> c, text1 |-> f.text1, text2 |-> f.text2,
                                  ret |-> r.ret, out |-> r.out])
    /\ UNCHANGED <<flow, stub, store>>

NextCalls ==
    \E c \in Callers :
        \/ Invoke(c)
        \/ Respond(c)
        \/ Return(c)

SpecCalls == InitCalls /\ [][NextCalls]_vars

(***************************************************************************)
(* Saving and loading history.                                             *)
(***************************************************************************)
\* app.py:120-129: mkdir(parents=True, exist_ok=True) does nothing when the
\* directory exists; a failure to create it is reported and the run goes on
Mkdir(exists) == IF exists THEN {TRUE} ELSE BOOLEAN
create_directories(exists, ok) == exists \/ ok

save_history_fresh(fs, module_type, data) ==
    LET free == {n \in FileNames :
                   n[1] = module_type /\ n[2] = module_type /\ fs[n] = Absent}
    IN  IF free = {} THEN [fs EXCEPT ![FileName(module_type, data.id)] = data]
        ELSE [fs EXCEPT ![CHOOSE n \in free : TRUE] = data]

\* app.py:146-156: the file named after data['id'] is opened with "w"
save_history(fs, module_type, data) ==
    [fs EXCEPT ![FileName(module_type, data.id)] = data]

Readable(c) == c.kind = "record"

\* app.py:176: key=lambda x: x.get('generatedDate', ''); the empty string is
\* below every date
SortKey(r) == IF r.dated THEN r.generatedDate + 1 ELSE 0

Insert_oldest_first(r, sorted) ==
    LET k == Cardinality({i \in 1..Len(sorted) : SortKey(sorted[i]) <= SortKey(r)})
    IN  SubSeq(sorted, 1, k) \o <<r>> \o SubSeq(sorted, k + 1, Len(sorted))

\* app.py:176: sorted(..., reverse=True) is stable: a record goes behind the
\* records whose key is not below its own
Insert(r, sorted) ==
    LET k == Cardinality({i \in 1..Len(sorted) : SortKey(sorted[i]) >= SortKey(r)})
    IN  SubSeq(sorted, 1, k) \o <<r>> \o SubSeq(sorted, k + 1, Len(sorted))

RECURSIVE SortedPrefix(_, _)
SortedPrefix(h, n) == IF n = 0 THEN <<>> ELSE Insert(h[n], SortedPrefix(h, n - 1))

\* app.py:159-176: load_history; listing is the content of the .json files of
\* the directory in the order os.listdir names them
load_history(exists, listing) ==
    IF ~exists THEN <<>>
    ELSE LET read == SelectSeq(listing, Readable)
         IN  SortedPrefix(read, Len(read))

\* the names os.listdir may return for a directory, in any order
Listings(module_type) ==
    LET present == {n \in FileNames : n[1] = module_type /\ files[n] # Absent}
    IN  {l \in [1..Cardinality(present) -> present] :
            \A i, j \in 1..Cardinality(present) : i # j => l[i] # l[j]}

InitHistory ==
    /\ FlowAtRest
    /\ CallsAtRest
    /\ stub = NoStub
    /\ StoreAtRest
    /\ FormsAtRest

Tick ==
    /\ now < MaxClock
    /\ now' = now + 1
    /\ UNCHANGED <<flow, calls, dirs, files, sessions, history>>

\* app.py:614, 666 and 701-710: a run of the script with the form submitted;
\* the case number and the date of the record are taken
StartSubmission(s) ==
    /\ sessions[s].at = "idle"
    /\ \E ok \in Mkdir(dirs) : dirs' = create_directories(dirs, ok)
    /\ sessions' = [sessions EXCEPT ![s] =
                       [at |-> "processing",
                        case_number |-> generate_case_number(now),
                        generatedDate |-> now]]
    /\ history' = NotLoaded
    /\ UNCHANGED <<flow, calls, now, files>>

\* app.py:790: save_history("transcriptions", transcription_results); open()
\* raises when the directory could not be created
FinishSubmission(s) ==
    /\ sessions[s].at = "processing"
    /\ \E ok \in Mkdir(dirs) : dirs' = create_directories(dirs, ok)
    /\ \E found \in SavedLists :
         files' = IF dirs'
                  THEN save_history(files, "transcriptions",
                                    RecordOf(sessions[s].case_number,
                                             sessions[s].generatedDate, found))
                  ELSE files
    /\ sessions' = [sessions EXCEPT ![s] = NoSubmission]
    /\ history' = NotLoaded
    /\ UNCHANGED <<flow, calls, now>>

\* app.py:1058-1107: the planning page saves a plan under the case number
\* the user typed
SavePlan ==
    /\ \E ok \in Mkdir(dirs) : dirs' = create_directories(dirs, ok)
    /\ files' = IF dirs'
                THEN save_history(files, "planning", RecordOf(0, now, <<>>))
                ELSE files
    /\ history' = NotLoaded
    /\ UNCHANGED <<flow, calls, now, sessions>>

\* a file that save_history did not write appears in the directory
PlaceFile ==
    /\ dirs
    /\ files[OldFile] = Absent
    /\ \E c \in {Undated, Unreadable} : files' = [files EXCEPT ![OldFile] = c]
    /\ history' = NotLoaded
    /\ UNCHANGED <<flow, calls, now, dirs, sessions>>

\* app.py:614, 875 and 1195: a run of the script that shows a history tab;
\* with the delete button of an item clicked it shows a warning (998-1001)
ViewHistory(module_type, delete_clicked) ==
    /\ \E ok \in Mkdir(dirs) : dirs' = create_directories(dirs, ok)
    /\ \E l \in Listings(module_type) :
         LET listing == [i \in 1..Len(l) |-> files[l[i]]]
             result == load_history(dirs', listing)
         IN  /\ delete_clicked => result # <<>>
             /\ history' = [shown |-> TRUE, module |-> module_type, exists |-> dirs',
                            listing |-> l, result |-> result,
                            warning |-> delete_clicked]
    /\ UNCHANGED <<flow, calls, now, files, sessions>>

NextHistory ==
    \/ Tick
    \/ \E s \in Sessions : StartSubmission(s)
    \/ \E s \in Sessions : FinishSubmission(s)
    \/ SavePlan
    \/ PlaceFile
    \/ \E m \in {"transcriptions", "planning"} : \E d \in BOOLEAN : ViewHistory(m, d)

SpecHistory == InitHistory /\ [][NextHistory]_vars

(***************************************************************************)
(* The indictment page: the manual evidence list and the submission.       *)
(***************************************************************************)
InitForms ==
    /\ FlowAtRest
    /\ CallsAtRest
    /\ stub = NoStub
    /\ StoreAtRest
    /\ FormsAtRest

\* app.py:1382-1384: the first run of the page puts the list into the
\* session state
OpenIndictment ==
    /\ "evidence_list" \notin session_keys
    /\ session_keys' = session_keys \cup {"evidence_list"}
    /\ evidence_list' = <<BlankEvidence>>
    /\ UNCHANGED <<transcription, tempfiles, calls, store, indictment, planning>>

\* app.py:1419-1421: the add button
AddEvidence ==
    /\ "evidence_list" \in session_keys
    /\ Len(evidence_list) < MaxEvidence
    /\ evidence_list' = Append(evidence_list, BlankEvidence)
    /\ UNCHANGED <<transcription, tempfiles, calls, store, forms>>

CanRemove_nonempty(list) == Len(list) > 0

\* app.py:1424: the remove button is drawn, and can be clicked, only then
CanRemove(list) == Len(list) > 1

\* app.py:1424-1426: the remove button
RemoveEvidence ==
    /\ "evidence_list" \in session_keys
    /\ CanRemove(evidence_list)
    /\ evidence_list' = SubSeq(evidence_list, 1, Len(evidence_list) - 1)
    /\ UNCHANGED <<transcription, tempfiles, calls, store, forms>>

IsValidEvidence_typed(e) == e.type # ""

\* app.py:1441: e.get("type") and e.get("description")
IsValidEvidence(e) == e.type # "" /\ e.description # ""

\* app.py:1435-1533: what a click on the submit button does with the values
\* of the form; text is what generate_indictment returns
SubmitIndictmentForm(case_number, crime_description, suspect_info, combined, text) ==
    LET valid_evidence == SelectSeq(combined, IsValidEvidence)
        entered == [NoIndictment EXCEPT !.submitted = TRUE,
                                        !.case_number = case_number,
                                        !.crime_description = crime_description,
                                        !.suspect_info = suspect_info,
                                        !.combined_evidence_list = combined]
    IN  IF case_number = "" \/ crime_description = "" \/ suspect_info = ""
        THEN [entered EXCEPT !.error = "fields_required"]
        ELSE IF valid_evidence = <<>>
        THEN [entered EXCEPT !.error = "evidence_required"]
        ELSE [entered EXCEPT !.requested = <<"generate_indictment", "analyze_evidence">>,
                             !.saved = TRUE,
                             !.evidenceList = valid_evidence,
                             !.indictmentText = text]

\* app.py:1386-1416 and 1433-1533: the submit button, with the values the
\* widgets of the rows hold
SubmitIndictment ==
    /\ "evidence_list" \in session_keys
    /\ \E case_number, crime_description, suspect_info \in {"", "text"} :
       \E rows \in [1..Len(evidence_list) -> ManualEvidence] :
       \E uploaded \in BOOLEAN :
       \E text \in {None, "text"} :
         indictment' = SubmitIndictmentForm(case_number, crime_description, suspect_info,
                                            FileEvidence(uploaded, "") \o rows, text)
    /\ UNCHANGED <<transcription, evidence_list, tempfiles, calls, store,
                   session_keys, planning>>

NextForms ==
    \/ OpenIndictment
    \/ AddEvidence
    \/ RemoveEvidence
    \/ SubmitIndictment

SpecForms == InitForms /\ [][NextForms]_vars

(***************************************************************************)
(* The planning page: one submission after another.                        *)
(***************************************************************************)
determine_crime_classification_requesting(facts, answer) ==
    [ret |-> answer, requested |-> TRUE]

\* app.py:433-455: with facts None the concatenation that builds the prompt
\* raises inside the try, before the request; the except clause returns None
determine_crime_classification(facts, answer) ==
    IF facts = None THEN [ret |-> NoClassification, requested |-> FALSE]
    ELSE [ret |-> answer, requested |-> TRUE]

\* app.py:490-517: process_methodology; when the temporary copy cannot be
\* written, file_path is unbound in the finally clause and the function
\* raises, leaving the file; otherwise it sends its request and returns the
\* answer, or None when the request fails
MethodologyOutcomes == {"raise", "failed", "text"}
process_methodology(outcome) ==
    CASE outcome = "raise" ->
           [raised |-> TRUE, ret |-> None, requested |-> FALSE, left |-> {"tmp.pdf"}]
      [] outcome = "failed" ->
           [raised |-> FALSE, ret |-> None, requested |-> TRUE, left |-> {}]
      [] OTHER ->
           [raised |-> FALSE, ret |-> "methodology", requested |-> TRUE, left |-> {}]

\* the positions behind the first "articles:" of a classification
RECURSIVE AfterMarker(_, _)
AfterMarker(words, i) ==
    IF i > Len(words) THEN <<>>
    ELSE IF words[i] = "articles:" THEN SubSeq(words, i + 1, Len(words))
    ELSE AfterMarker(words, i + 1)

\* app.py:1090-1097: the articles named behind the marker, split at the
\* commas; with classification None the in test raises and the bare except
\* leaves the empty list
LegalArticles(classification) ==
    IF classification.none THEN <<>>
    ELSE LET IsArticle(w) == w # ","
         IN  SelectSeq(AfterMarker(classification.words, 1), IsArticle)

Requested(flag, name) == IF flag THEN <<name>> ELSE <<>>

\* app.py:1053-1107: what a click on the submit button of the planning form
\* does with the values f of the form; m holds what the helpers get from
\* the model
SubmitPlanningForm(f, m) ==
    LET entered == [NoPlanning EXCEPT !.submitted = TRUE,
                                      !.case_number = f.case_number,
                                      !.case_description = f.case_description,
                                      !.methodology = f.methodology_file /\ f.use_methodology]
        classification == determine_crime_classification(m.facts, m.answer)
        method == IF f.methodology_file /\ f.use_methodology
                  THEN process_methodology(m.outcome)
                  ELSE [raised |-> FALSE, ret |-> None, requested |-> FALSE, left |-> {}]
        analysed == [entered EXCEPT
                        !.extractedFacts = m.facts,
                        !.crimeClassification = classification.ret,
                        !.requested = <<"extract_case_facts">>
                            \o Requested(classification.requested,
                                         "determine_crime_classification")
                            \o Requested(method.requested, "process_methodology")]
    IN  IF f.case_number = "" \/ f.case_description = ""
        THEN [form |-> [entered EXCEPT !.error = "fields_required"], left |-> {}]
        ELSE IF method.raised
        THEN [form |-> [analysed EXCEPT !.raised = TRUE, !.error = "processing_error"],
              left |-> method.left]
        ELSE [form |-> [analysed EXCEPT
                           !.crimeCategory = IF f.crime_category = "" THEN "not given"
                                             ELSE f.crime_category,
                           !.suspectInfo = f.suspect_info,
                           !.requested = analysed.requested
                                            \o <<"create_investigation_plan">>,
                           !.plan = m.plan,
                           !.legalArticles = LegalArticles(classification.ret),
                           !.methodologyUsed = IF Truthy(method.ret) THEN TRUE
                                               ELSE f.use_methodology,
                           !.saved = TRUE],
              left |-> {}]

\* app.py:1053-1107: the submit button of the planning form
SubmitPlan ==
    /\ \E case_number, case_description, suspect_info \in {"", "text"} :
       \E crime_category \in {"", "theft"} :
       \E methodology_file, use_methodology \in BOOLEAN :
       \E facts, plan \in {None, "text"} :
       \E answer \in ClassificationAnswers :
       \E outcome \in MethodologyOutcomes :
         LET r == SubmitPlanningForm(
                      [case_number |-> case_number, case_description |-> case_description,
                       crime_category |-> crime_category, suspect_info |-> suspect_info,
                       methodology_file |-> methodology_file,
                       use_methodology |-> use_methodology],
                      [facts |-> facts, answer |-> answer, outcome |-> outcome,
                       plan |-> plan])
         IN  /\ planning' = r.form
             /\ tempfiles' = tempfiles \cup r.left
    /\ UNCHANGED <<transcription, evidence_list, calls, store, session_keys,
                   indictment>>

NextPlanning == SubmitPlan

SpecPlanning == InitForms /\ [][NextPlanning]_vars

(***************************************************************************)
(* Vocabulary of the properties.                                           *)
(***************************************************************************)
\* compare_testimonies has been called and has returned
Compared == compare_calls > 0
\* the upstream call returned a response with a content
HasContent == Compared /\ response.kind = "content"
\* what json.loads makes of the stripped content
Loaded == JsonLoads(Strip(response.content))
\* the positions of the list-valued fields of a parsed object
ListFields(d) == {i \in 1..Len(d.items) : IsList(d.items[i])}
\* number of messages of a channel, of a kind
CountCh(ch) == Cardinality({i \in 1..Len(messages) : messages[i].ch = ch})
CountMsg(m) == Cardinality({i \in 1..Len(messages) : messages[i].msg = m})
Shown(d) == \E i \in 1..Len(messages) : messages[i] = d
\* an exception reached the flow's handler (app.py:868-869)
FlowRaised == CountMsg("processing_error") > 0
\* the four fields of a Contradiction record
ContradictionFields == {"description", "quote1", "quote2", "significance"}
IsContradiction(v) ==
    IsDict(v) /\ {v.keys[i] : i \in 1..Len(v.keys)} = ContradictionFields

\* C1: a payload that parses as a JSON list is returned as that list: same
\* elements, same order, nothing added, dropped or rewritten.
C1_ListReturnedUnchanged ==
    LET L == Loaded IN
    (HasContent /\ L.ok /\ IsList(L.val))
        => contradictions_result = RetList(L.val.items)

\* a two-element list whose elements differ and are not all records was returned
C1_Witness ==
    LET L == Loaded IN
    /\ HasContent /\ L.ok /\ IsList(L.val)
    /\ Len(contradictions_result.list) = 2
    /\ contradictions_result.list[1] = StrV("x")
    /\ contradictions_result.list[2] = Contradiction("d1")

\* C2: when the chat-completion request itself fails, compare_testimonies
\* returns None, never an empty list.
C2_UpstreamFailureIsNone ==
    (Compared /\ response.kind = "raise")
        => (contradictions_result.none /\ contradictions_result # RetList(<<>>))

C2_Witness == Compared /\ response.kind = "raise" /\ pc = "questions"

\* C3: compare_testimonies returns None only when the remote call itself
\* failed; a call that returned a response ends with a list, whatever the
\* payload (mis-shaped, unparseable, missing content).
C3_NoneOnlyOnUpstreamFailure ==
    (Compared /\ response.kind # "raise") => ~contradictions_result.none

\* C4: after compare_testimonies returned None, generate_questions is not
\* invoked for that submission, also with the questions option checked.
C4_NoQuestionsAfterFailure ==
    (Compared /\ contradictions_result.none) => question_calls = 0

\* the question step has run with the option checked after a failed comparison
C4_Witness ==
    /\ Compared /\ contradictions_result.none /\ generate_questions_check
    /\ pc = "save"

\* C5: a payload that parses as an object with exactly one list-valued field
\* yields that nested list (also an empty one) and exactly one salvage
\* warning, naming the field.
C5_SalvageSingleList ==
    LET L == Loaded IN
    (HasContent /\ L.ok /\ IsDict(L.val)
       /\ Cardinality(ListFields(L.val)) = 1)
        => \E i \in ListFields(L.val) :
            /\ contradictions_result = RetList(L.val.items[i].items)
            /\ CountCh("warning") = 1
            /\ Shown(Diag("warning", "salvaged_from_key", L.val.keys[i], <<>>))

\* the object {"contradictions": []} was salvaged into the empty list
C5_Witness ==
    LET L == Loaded IN
    /\ HasContent /\ L.ok
    /\ L.val = DictV(<<"contradictions">>, <<ListV(<<>>)>>)
    /\ contradictions_result = RetList(<<>>)
    /\ CountMsg("salvaged_from_key") = 1

\* C6: of several list-valued fields the first in the object's key order is
\* returned and the later ones are ignored; an object without a list-valued
\* field gives the empty list.
C6_FirstListFieldWins ==
    LET L == Loaded IN
    (HasContent /\ L.ok /\ IsDict(L.val))
        => IF ListFields(L.val) = {}
           THEN contradictions_result = RetList(<<>>)
           ELSE \E i \in ListFields(L.val) :
                /\ \A j \in ListFields(L.val) : i <= j
                /\ contradictions_result = RetList(L.val.items[i].items)

\* an object with two different list-valued fields was answered
C6_Witness ==
    LET L == Loaded IN
    /\ HasContent /\ L.ok /\ IsDict(L.val)
    /\ ListFields(L.val) = {1, 2}
    /\ L.val.items[1] # L.val.items[2]
    /\ contradictions_result = RetList(L.val.items[1].items)

\* C7: a payload that parses as an object without list-valued field gives an
\* empty list and an error diagnostic, and no exception reaches the caller.
C7_NoListFieldIsEmpty ==
    LET L == Loaded IN
    (HasContent /\ L.ok /\ IsDict(L.val) /\ ListFields(L.val) = {})
        => /\ contradictions_result = RetList(<<>>)
           /\ Shown(Msg("error", "json_not_a_list"))
           /\ CountMsg("salvaged_from_key") = 0
           /\ (pc = "questions" => ~FlowRaised)

\* an object with a field that is no list was answered
C7_Witness ==
    LET L == Loaded IN
    /\ HasContent /\ L.ok /\ IsDict(L.val)
    /\ Len(L.val.items) > 0 /\ ListFields(L.val) = {}
    /\ pc = "questions"

C9_ElementsAreContradictions ==
    (Compared /\ ~contradictions_result.none)
        => \A i \in 1..Len(contradictions_result.list) :
                IsContradiction(contradictions_result.list[i])

\* the comparison found, exactly or by salvage, a list that is empty
GenuinelyEmpty ==
    LET L == Loaded IN
    /\ HasContent /\ L.ok
    /\ \/ L.val = ListV(<<>>)
       \/ /\ IsDict(L.val)
          /\ \E i \in ListFields(L.val) :
                /\ \A j \in ListFields(L.val) : i <= j
                /\ L.val.items[i] = ListV(<<>>)

\* C10: each comparison outcome has its own signal: the salvage warning when
\* the salvage fires, an error when the call fails, the neutral note when no
\* contradiction is genuinely found, and the neutral note is not shown for
\* an empty result that comes from a malformed or mis-shaped payload.
C10_SignalPerOutcome ==
    LET L == Loaded IN
    Compared =>
        /\ contradictions_result.none => Shown(Msg("error", "comparison_api_error"))
        /\ (HasContent /\ L.ok /\ IsDict(L.val)
              /\ ListFields(L.val) # {}) => CountMsg("salvaged_from_key") = 1
        /\ Shown(Msg("info", "no_contradictions")) <=> GenuinelyEmpty

\* C11: each invocation of compare_testimonies sends exactly one
\* chat-completion request; a failed attempt is not repeated and ends the
\* invocation with the failure result.
C11_OneRequestPerCall ==
    /\ Len(requests) = compare_calls
    /\ (Compared /\ response.kind = "raise")
          => (contradictions_result.none /\ CountMsg("comparison_failed") = 1)

\* the request failed and the invocation ended
C11_Witness ==
    Compared /\ response.kind = "raise" /\ Len(requests) = 1 /\ pc = "questions"

\* C12: compare_testimonies mutates no local state on any path: the two
\* input texts, the history store and the UI session state are after the
\* call what they were before.
C12_CompareMutatesNothing ==
    [][compare_calls' # compare_calls
         => /\ transcription1' = transcription1
            /\ transcription2' = transcription2
            /\ storage' = storage
            /\ evidence_list' = evidence_list]_vars

\* the comparison has run, on a path that salvaged a list
C12_Witness ==
    /\ Compared /\ pc = "questions" /\ CountMsg("salvaged_from_key") = 1
    /\ transcription1 = "testimony 1" /\ transcription2 = "testimony 2"

\* C15: the request holds both texts as they are, the text of party 1 after
\* the party-1 label, the text of party 2 after the party-2 label and after
\* the text of party 1; the flow passes the transcript of the first upload
\* as party 1 and that of the second upload as party 2.
C15_PromptKeepsParties ==
    \A n \in 1..Len(requests) :
        \E i, j \in 1..Len(requests[n]) :
            /\ requests[n][i] = "party 1:" /\ requests[n][i + 1] = transcription1
            /\ requests[n][j] = "party 2:" /\ requests[n][j + 1] = transcription2
            /\ i + 1 < j

\* a request with two different transcripts was sent
C15_Witness ==
    /\ Len(requests) = 1
    /\ transcription1 = "testimony 1" /\ transcription2 = "testimony 2"

\* the helpers that call the hosted model
ModelBackedHelpers ==
    {"transcribe_audio", "analyze_transcription", "compare_testimonies",
     "generate_questions"}

\* C17: no model-backed helper lets an exception escape to its caller, also
\* when the step before it failed and handed it None.
C17_HelpersNeverRaise == raised_by \notin ModelBackedHelpers

\* the position of a step in the text of the handler
Rank(p) ==
    CASE p = "form" -> 0
      [] p = "extract1" -> 1
      [] p = "transcribe1" -> 2
      [] p = "analyze1" -> 3
      [] p = "extract2" -> 4
      [] p = "transcribe2" -> 5
      [] p = "analyze2" -> 6
      [] p = "compare" -> 7
      [] p = "questions" -> 8
      [] p = "save" -> 9
      [] p = "docx" -> 10
      [] OTHER -> 11

\* C18: a submission runs its steps in the order of the handler, each at most
\* once: per upload normalize, transcribe, analyze; then the comparison,
\* question generation, save_history, the document.  No step is entered
\* again and save_history does not come before the comparison.
C18_LinearOrder ==
    [][/\ Rank(pc') > Rank(pc)
       /\ storage' # storage => (pc = "save" /\ Rank(pc) > Rank("compare"))
       /\ compare_calls' # compare_calls => (pc = "compare" /\ compare_calls = 0)
       /\ question_calls' # question_calls => (pc = "questions" /\ question_calls = 0)
      ]_vars

\* a submission with two uploads went through every step
C18_Witness ==
    /\ pc = "done" /\ uploaded_file2 /\ storage # {}
    /\ compare_calls = 1 /\ question_calls = 1

\* C16: when transcribe_audio has finished, with or without a transcript,
\* the file it was given is gone, and no temporary file made for the upload
\* is left after extract_audio followed by transcribe_audio.
C16_NoTempFileSurvives ==
    [][(pc = "transcribe1" \/ pc = "transcribe2")
         => (audio_path \notin tempfiles' /\ tempfiles' = {})]_vars

\* C13: two invocations of compare_testimonies with the same two texts,
\* against a deterministic stub backend, return the same result and emit the
\* same diagnostics, whatever was invoked in between.
C13_SameInputsSameOutcome ==
    \A i, j \in 1..Len(log) :
        (log[i].text1 = log[j].text1 /\ log[i].text2 = log[j].text2)
            => (log[i].ret = log[j].ret /\ log[i].out = log[j].out)

\* the same texts were compared twice, with diagnostics, and other texts
\* with another outcome in between
C13_Witness ==
    /\ Len(log) = 3
    /\ log[1].text1 = log[3].text1 /\ log[1].text2 = log[3].text2
    /\ log[1].out # <<>>
    /\ log[2].text1 # log[1].text1 /\ log[2].ret # log[1].ret

\* C14: interleaved invocations by independent callers do not affect one
\* another: what an invocation returns is what compare_testimonies makes of
\* the response to its own two texts.
C14_CallersIndependent ==
    \A c \in Callers :
        frames[c].at = "returned"
            => frames[c].result
                 = compare_testimonies(stub[BuildPrompt(frames[c].text1, frames[c].text2)])

\* a caller returned a list while the other one, invoked with other texts
\* before it returned, holds a failed response
C14_Witness ==
    /\ frames["c1"].at = "returned" /\ ~frames["c1"].result.ret.none
    /\ frames["c1"].result.ret.list # <<>>
    /\ frames["c2"].at = "received" /\ frames["c2"].response.kind = "raise"
    /\ frames["c2"].prompt # frames["c1"].prompt

\* C19: load_history(module) returns the readable records of the module's
\* directory, newest generatedDate first, records without the field last;
\* it returns the empty list when the directory does not exist.
C19_HistoryNewestFirst ==
    history.shown =>
        LET res == history.result
            dir == {n \in FileNames : n[1] = history.module /\ Readable(files[n])}
        IN  IF ~history.exists THEN res = <<>>
            ELSE /\ Len(res) = Cardinality(dir)
                 /\ {res[i] : i \in 1..Len(res)} = {files[n] : n \in dir}
                 /\ \A i, j \in 1..Len(res) :
                      i < j => /\ res[i].dated \/ ~res[j].dated
                               /\ (res[i].dated /\ res[j].dated)
                                     => res[i].generatedDate >= res[j].generatedDate

\* three readable records were listed, the record without date first and
\* the oldest before the newest
C19_Witness ==
    /\ history.shown /\ Len(history.listing) = 3
    /\ history.listing[1] = OldFile
    /\ Len(history.result) = 3
    /\ files[history.listing[2]].generatedDate < files[history.listing[3]].generatedDate

\* C20: the contradictions of a saved transcription record are changed by no
\* later operation; they disappear only with the record.
C20_SavedContradictionsKept ==
    [][\A n \in FileNames :
          (Readable(files[n]) /\ Readable(files'[n]))
             => files'[n].contradictions = files[n].contradictions]_vars

\* C21: generate_case_number yields a unique case number: two submissions,
\* of one session or of two, never have the same record id.
C21_CaseNumbersUnique ==
    /\ \A s, t \in Sessions :
          (s # t /\ sessions[s].at = "processing" /\ sessions[t].at = "processing")
             => sessions[s].case_number # sessions[t].case_number
    /\ \A s \in Sessions :
          sessions[s].at = "processing"
             => ~Readable(files[FileName("transcriptions", sessions[s].case_number)])

\* the files save_history has written in the directory of a module
SavedIn(fs, module_type) ==
    {n \in FileNames : n[1] = module_type /\ n[2] = module_type /\ Readable(fs[n])}

\* C22: the store holds at most one record per (module, id): a save under an
\* id the module already has replaces the record, so a module has as many
\* records as distinct ids were saved to it, and a save leaves the records
\* of the other modules as they were.
C22_OneRecordPerId ==
    [][/\ \A m \in {"transcriptions", "planning"} :
            /\ Cardinality(SavedIn(files', m))
                 = Cardinality({files'[n].id : n \in SavedIn(files', m)})
            /\ \A n \in SavedIn(files', m) : files'[n].id = n[3]
       /\ \A n \in FileNames :
            files'[n] # files[n]
               => \A k \in FileNames : k[1] # n[1] => files'[k] = files[k]
      ]_vars

\* both modules hold records, the transcriptions two of them, and the record
\* of case 0 is that of the later of two submissions of the same second
C22_Witness ==
    /\ Cardinality(SavedIn(files, "transcriptions")) = 2
    /\ Cardinality(SavedIn(files, "planning")) = 1
    /\ files[FileName("transcriptions", 0)].generatedDate = 1
    /\ \E s \in Sessions :
          /\ sessions[s].at = "processing" /\ sessions[s].case_number = 0
          /\ sessions[s].generatedDate = 0

\* C23: in every saved transcription record the contradictions field is a
\* list: the list compare_testimonies returned when the comparison ran and
\* returned one, the empty list when it was skipped or failed.
C23_StoredContradictionsIsList ==
    \A rec \in storage :
        /\ Compared <=> ShouldCompare(find_contradictions, transcription1, transcription2)
        /\ rec.contradictions
             = IF Compared /\ ~contradictions_result.none
               THEN contradictions_result.list ELSE <<>>

\* a record was saved after a comparison that returned a list with an
\* element that is no record
C23_Witness ==
    /\ storage # {} /\ Compared /\ ~contradictions_result.none
    /\ \E rec \in storage :
          \E i \in 1..Len(rec.contradictions) : ~IsDict(rec.contradictions[i])

\* C24: in every saved transcription record a non-empty suggestedQuestions
\* implies a non-empty contradictions; generate_questions is called only with
\* the option checked and at least one contradiction.
C24_QuestionsNeedContradictions ==
    /\ \A rec \in storage :
          rec.suggestedQuestions # <<>> => rec.contradictions # <<>>
    /\ question_calls > 0 => (generate_questions_check /\ contradictions # <<>>)

\* a record with questions was saved
C24_Witness ==
    \E rec \in storage : rec.suggestedQuestions # <<>> /\ Len(rec.contradictions) = 2

\* C25: a submission writes at most one record, and only when no earlier
\* step raised; when a step raises, the flow shows the error and saves
\* nothing.
C25_SaveOnlyAfterSuccess ==
    [][/\ Cardinality(storage') <= 1
       /\ storage' # storage => (pc = "save" /\ raised_by = "" /\ ~FlowRaised)
       /\ (raised_by' # raised_by)
             => /\ storage' = storage
                /\ messages'[Len(messages')] = Msg("error", "processing_error")
                /\ pc # "docx" => (pc' = "done" /\ storage = {})
      ]_vars

\* question generation raised after a comparison that returned a list, and
\* nothing was saved
C25_Witness ==
    /\ pc = "done" /\ raised_by = "show_transcription_module"
    /\ compare_calls = 1 /\ contradictions # <<>> /\ storage = {}

\* C26: a payload that is valid JSON but neither a list nor an object gives
\* an empty list with the error diagnostic and no salvage warning.
C26_ScalarIsEmpty ==
    LET L == Loaded IN
    (HasContent /\ L.ok /\ ~IsList(L.val) /\ ~IsDict(L.val))
        => /\ contradictions_result = RetList(<<>>)
           /\ Shown(Msg("error", "json_not_a_list"))
           /\ CountMsg("salvaged_from_key") = 0

\* a number, a string, null or true was answered
C26_Witness ==
    LET L == Loaded IN
    /\ HasContent /\ L.ok /\ L.val = LitV("true")
    /\ pc = "questions"

\* C27: the manual evidence list of the session state has at least one
\* entry, for any sequence of add and remove clicks.
C27_EvidenceListNeverEmpty ==
    "evidence_list" \in session_keys => Len(evidence_list) >= 1

\* rows were added and removed again down to the last one
C27_Witness ==
    /\ "evidence_list" \in session_keys /\ Len(evidence_list) = 1
    /\ indictment.submitted /\ Len(indictment.combined_evidence_list) = MaxEvidence

\* C28: an indictment record is saved and the model is called only if case
\* number, crime description and suspect info are non-empty and an evidence
\* item has a type and a description; the evidenceList of a saved record has
\* only such items.
C28_IndictmentNeedsValidInput ==
    (indictment.saved \/ indictment.requested # <<>>)
        => /\ indictment.case_number # ""
           /\ indictment.crime_description # ""
           /\ indictment.suspect_info # ""
           /\ \E i \in 1..Len(indictment.combined_evidence_list) :
                 /\ indictment.combined_evidence_list[i].type # ""
                 /\ indictment.combined_evidence_list[i].description # ""
           /\ indictment.evidenceList # <<>>
           /\ \A i \in 1..Len(indictment.evidenceList) :
                 /\ indictment.evidenceList[i].type # ""
                 /\ indictment.evidenceList[i].description # ""

\* a record was saved from a form with a valid row and a row without
\* description
C28_Witness ==
    /\ indictment.saved
    /\ Len(indictment.combined_evidence_list) = 2
    /\ Len(indictment.evidenceList) = 1
    /\ \E i \in 1..2 :
          /\ indictment.combined_evidence_list[i].type # ""
          /\ indictment.combined_evidence_list[i].description = ""

====
